---- MODULE Spec2Model ----
(***************************************************************************)
(* Model of inventory_system.py: the module-level dictionary stock_data,   *)
(* the operations add_item, remove_item, get_qty, check_low_items and the  *)
(* JSON persistence load_data / save_data on one file.                     *)
(***************************************************************************)
EXTENDS Integers, Sequences, FiniteSets, TLC

\* ---------------------------------------------------------------- bounds
\* largest quantity an add may build up in the mapping
MaxQty == 2
\* largest integer passed as qty / threshold argument
MaxArg == 2
\* number of consecutive runs of main()
MaxRuns == 6

\* ------------------------------------------------------- Python values
\* A Python value: t is the type, n the numeric payload, s the text payload.
\* A float [t = "float", n] stands for n + 0.5.
PyInt(n) == [t |-> "int", n |-> n, s |-> ""]
PyStr(s) == [t |-> "str", n |-> 0, s |-> s]
PyBool(b) == [t |-> "bool", n |-> IF b THEN 1 ELSE 0, s |-> ""]
PyFloat(n) == [t |-> "float", n |-> n, s |-> ""]
PyTypeError == [t |-> "TypeError", n |-> 0, s |-> ""]

\* isinstance(x, str), isinstance(x, int): bool is a subclass of int
isinstance_str(x) == x.t = "str"
isinstance_int(x) == x.t \in {"int", "bool"}
IsNumber(x) == x.t \in {"int", "bool", "float"}
\* twice the numeric value, so that halves stay integers
Twice(x) == IF x.t = "float" THEN 2 * x.n + 1 ELSE 2 * x.n

\* bool(x) for the values used as item
Truthy(x) == IF x.t = "str" THEN x.s # "" ELSE Twice(x) # 0

\* a + b
PyAdd(a, b) ==
    IF isinstance_int(a) /\ isinstance_int(b) THEN PyInt(a.n + b.n)
    ELSE IF IsNumber(a) /\ IsNumber(b)
         THEN PyFloat(IF a.t = "float" /\ b.t = "float" THEN a.n + b.n + 1 ELSE a.n + b.n)
    ELSE PyTypeError

\* a - b
PySub(a, b) ==
    IF isinstance_int(a) /\ isinstance_int(b) THEN PyInt(a.n - b.n)
    ELSE IF IsNumber(a) /\ IsNumber(b)
         THEN (IF a.t = "float" /\ b.t = "float" THEN PyInt(a.n - b.n)
               ELSE IF a.t = "float" THEN PyFloat(a.n - b.n)
               ELSE PyFloat(a.n - b.n - 1))
    ELSE PyTypeError

\* a < b, a > b, for operand pairs of which at least one is a number (every
\* qty and threshold here is one): "TypeError" unless both are numbers
PyLt(a, b) ==
    IF IsNumber(a) /\ IsNumber(b) THEN (IF Twice(a) < Twice(b) THEN "True" ELSE "False")
    ELSE "TypeError"

PyGt(a, b) == PyLt(b, a)

\* a == b never raises
PyEq(a, b) ==
    IF IsNumber(a) /\ IsNumber(b) THEN Twice(a) = Twice(b)
    ELSE a.t = b.t /\ a.s = b.s

\* ------------------------------------------------------------ the dict
\* A dict is the sequence of its entries [k, v] in insertion order; keys are
\* text (add_item admits only str keys, JSON objects only have str keys).
Keys(d) == {d[i].k : i \in DOMAIN d}

IndexOf(d, k) == CHOOSE i \in DOMAIN d : d[i].k = k

dict_get(d, k, default) == IF k \in Keys(d) THEN d[IndexOf(d, k)].v ELSE default

dict_set(d, k, v) ==
    IF k \in Keys(d) THEN [d EXCEPT ![IndexOf(d, k)].v = v]
    ELSE Append(d, [k |-> k, v |-> v])

dict_del(d, k) == SelectSeq(d, LAMBDA e : e.k # k)

\* item in stock_data
Contains(d, item) == isinstance_str(item) /\ item.s \in Keys(d)

\* ------------------------------------------------------ the operations
\* What a call does: the mapping afterwards, the exception that leaves the
\* call ("none" when it returns), the records it logs, and what it returns.
Outcome(stock, raised, log, ret) ==
    [stock |-> stock, raised |-> raised, log |-> log, ret |-> ret]

None == [t |-> "NoneType", n |-> 0, s |-> ""]

\* add_item storing qty instead of the sum
add_item_overwrite(sd, item, qty) ==
    IF ~isinstance_str(item) \/ ~Truthy(item)
    THEN Outcome(sd, "none", <<"error:invalid-name">>, None)
    ELSE IF ~isinstance_int(qty)
    THEN Outcome(sd, "none", <<"error:invalid-quantity">>, None)
    ELSE IF Twice(qty) <= 0
    THEN Outcome(sd, "none", <<"warning:invalid-quantity">>, None)
    ELSE Outcome(dict_set(sd, item.s, PyInt(qty.n)), "none", <<"info:added">>, None)

\* add_item starting an absent item at 1 instead of 0
add_item_default1(sd, item, qty) ==
    IF ~isinstance_str(item) \/ ~Truthy(item)
    THEN Outcome(sd, "none", <<"error:invalid-name">>, None)
    ELSE IF ~isinstance_int(qty)
    THEN Outcome(sd, "none", <<"error:invalid-quantity">>, None)
    ELSE IF Twice(qty) <= 0
    THEN Outcome(sd, "none", <<"warning:invalid-quantity">>, None)
    ELSE LET total == PyAdd(dict_get(sd, item.s, PyInt(1)), qty) IN
         IF total = PyTypeError
         THEN Outcome(sd, "TypeError", <<>>, None)
         ELSE Outcome(dict_set(sd, item.s, total), "none", <<"info:added">>, None)

\* add_item without the qty <= 0 check
add_item_no_sign_check(sd, item, qty) ==
    IF ~isinstance_str(item) \/ ~Truthy(item)
    THEN Outcome(sd, "none", <<"error:invalid-name">>, None)
    ELSE IF ~isinstance_int(qty)
    THEN Outcome(sd, "none", <<"error:invalid-quantity">>, None)
    ELSE LET total == PyAdd(dict_get(sd, item.s, PyInt(0)), qty) IN
         IF total = PyTypeError
         THEN Outcome(sd, "TypeError", <<>>, None)
         ELSE Outcome(dict_set(sd, item.s, total), "none", <<"info:added">>, None)

add_item(sd, item, qty) ==
    IF ~isinstance_str(item) \/ ~Truthy(item)
    THEN Outcome(sd, "none", <<"error:invalid-name">>, None)
    ELSE IF ~isinstance_int(qty)
    THEN Outcome(sd, "none", <<"error:invalid-quantity">>, None)
    ELSE IF Twice(qty) <= 0
    THEN Outcome(sd, "none", <<"warning:invalid-quantity">>, None)
    ELSE LET total == PyAdd(dict_get(sd, item.s, PyInt(0)), qty) IN
         IF total = PyTypeError
         THEN Outcome(sd, "TypeError", <<>>, None)
         ELSE Outcome(dict_set(sd, item.s, total), "none", <<"info:added">>, None)

\* remove_item subtracting without looking the item up first
remove_item_keyerror(sd, item, qty) ==
    IF ~isinstance_str(item) \/ ~Truthy(item)
    THEN Outcome(sd, "none", <<"error:invalid-name">>, None)
    ELSE IF ~isinstance_int(qty)
    THEN Outcome(sd, "none", <<"error:invalid-quantity">>, None)
    ELSE IF Twice(qty) <= 0
    THEN Outcome(sd, "none", <<"warning:invalid-quantity">>, None)
    ELSE IF item.s \notin Keys(sd)
    THEN Outcome(sd, "KeyError", <<>>, None)
    ELSE LET current_qty == dict_get(sd, item.s, None) IN
         IF PyGt(qty, current_qty) = "TypeError"
         THEN Outcome(sd, "TypeError", <<>>, None)
         ELSE IF PyGt(qty, current_qty) = "True"
         THEN Outcome(dict_del(sd, item.s), "none",
                      <<"warning:over-removal", "info:removed-all">>, None)
         ELSE IF PyEq(qty, current_qty)
         THEN Outcome(dict_del(sd, item.s), "none", <<"info:removed-all-now-0">>, None)
         ELSE Outcome(dict_set(sd, item.s, PySub(current_qty, qty)), "none",
                      <<"info:removed">>, None)

\* remove_item taking one unit too many on a partial removal
remove_item_off_by_one(sd, item, qty) ==
    IF ~isinstance_str(item) \/ ~Truthy(item)
    THEN Outcome(sd, "none", <<"error:invalid-name">>, None)
    ELSE IF ~isinstance_int(qty)
    THEN Outcome(sd, "none", <<"error:invalid-quantity">>, None)
    ELSE IF Twice(qty) <= 0
    THEN Outcome(sd, "none", <<"warning:invalid-quantity">>, None)
    ELSE IF item.s \notin Keys(sd)
    THEN Outcome(sd, "none", <<"warning:not-found">>, None)
    ELSE LET current_qty == dict_get(sd, item.s, None) IN
         IF PyGt(qty, current_qty) = "TypeError"
         THEN Outcome(sd, "TypeError", <<>>, None)
         ELSE IF PyGt(qty, current_qty) = "True"
         THEN Outcome(dict_del(sd, item.s), "none",
                      <<"warning:over-removal", "info:removed-all">>, None)
         ELSE IF PyEq(qty, current_qty)
         THEN Outcome(dict_del(sd, item.s), "none", <<"info:removed-all-now-0">>, None)
         ELSE Outcome(dict_set(sd, item.s, PySub(PySub(current_qty, qty), PyInt(1))),
                      "none", <<"info:removed">>, None)

\* remove_item storing 0 when qty equals the current quantity
remove_item_keep_zero(sd, item, qty) ==
    IF ~isinstance_str(item) \/ ~Truthy(item)
    THEN Outcome(sd, "none", <<"error:invalid-name">>, None)
    ELSE IF ~isinstance_int(qty)
    THEN Outcome(sd, "none", <<"error:invalid-quantity">>, None)
    ELSE IF Twice(qty) <= 0
    THEN Outcome(sd, "none", <<"warning:invalid-quantity">>, None)
    ELSE IF item.s \notin Keys(sd)
    THEN Outcome(sd, "none", <<"warning:not-found">>, None)
    ELSE LET current_qty == dict_get(sd, item.s, None) IN
         IF PyGt(qty, current_qty) = "TypeError"
         THEN Outcome(sd, "TypeError", <<>>, None)
         ELSE IF PyGt(qty, current_qty) = "True"
         THEN Outcome(dict_del(sd, item.s), "none",
                      <<"warning:over-removal", "info:removed-all">>, None)
         ELSE IF PyEq(qty, current_qty)
         THEN Outcome(dict_set(sd, item.s, PyInt(0)), "none",
                      <<"info:removed-all-now-0">>, None)
         ELSE Outcome(dict_set(sd, item.s, PySub(current_qty, qty)), "none",
                      <<"info:removed">>, None)

\* remove_item as a plain subtraction, without the clamp
remove_item_plain_subtract(sd, item, qty) ==
    IF ~isinstance_str(item) \/ ~Truthy(item)
    THEN Outcome(sd, "none", <<"error:invalid-name">>, None)
    ELSE IF ~isinstance_int(qty)
    THEN Outcome(sd, "none", <<"error:invalid-quantity">>, None)
    ELSE IF Twice(qty) <= 0
    THEN Outcome(sd, "none", <<"warning:invalid-quantity">>, None)
    ELSE IF item.s \notin Keys(sd)
    THEN Outcome(sd, "none", <<"warning:not-found">>, None)
    ELSE LET current_qty == dict_get(sd, item.s, None) IN
         IF PyGt(qty, current_qty) = "TypeError"
         THEN Outcome(sd, "TypeError", <<>>, None)
         ELSE IF PyEq(qty, current_qty)
         THEN Outcome(dict_del(sd, item.s), "none", <<"info:removed-all-now-0">>, None)
         ELSE Outcome(dict_set(sd, item.s, PySub(current_qty, qty)), "none",
                      <<"info:removed">>, None)

\* remove_item that only warns on an over-removal
remove_item_ignore_over(sd, item, qty) ==
    IF ~isinstance_str(item) \/ ~Truthy(item)
    THEN Outcome(sd, "none", <<"error:invalid-name">>, None)
    ELSE IF ~isinstance_int(qty)
    THEN Outcome(sd, "none", <<"error:invalid-quantity">>, None)
    ELSE IF Twice(qty) <= 0
    THEN Outcome(sd, "none", <<"warning:invalid-quantity">>, None)
    ELSE IF item.s \notin Keys(sd)
    THEN Outcome(sd, "none", <<"warning:not-found">>, None)
    ELSE LET current_qty == dict_get(sd, item.s, None) IN
         IF PyGt(qty, current_qty) = "TypeError"
         THEN Outcome(sd, "TypeError", <<>>, None)
         ELSE IF PyGt(qty, current_qty) = "True"
         THEN Outcome(sd, "none", <<"warning:over-removal">>, None)
         ELSE IF PyEq(qty, current_qty)
         THEN Outcome(dict_del(sd, item.s), "none", <<"info:removed-all-now-0">>, None)
         ELSE Outcome(dict_set(sd, item.s, PySub(current_qty, qty)), "none",
                      <<"info:removed">>, None)

\* remove_item looking the item up before it validates qty
remove_item_lookup_first(sd, item, qty) ==
    IF ~isinstance_str(item) \/ ~Truthy(item)
    THEN Outcome(sd, "none", <<"error:invalid-name">>, None)
    ELSE IF item.s \notin Keys(sd)
    THEN Outcome(sd, "none", <<"warning:not-found">>, None)
    ELSE IF ~isinstance_int(qty)
    THEN Outcome(sd, "none", <<"error:invalid-quantity">>, None)
    ELSE IF Twice(qty) <= 0
    THEN Outcome(sd, "none", <<"warning:invalid-quantity">>, None)
    ELSE LET current_qty == dict_get(sd, item.s, None) IN
         IF PyGt(qty, current_qty) = "TypeError"
         THEN Outcome(sd, "TypeError", <<>>, None)
         ELSE IF PyGt(qty, current_qty) = "True"
         THEN Outcome(dict_del(sd, item.s), "none",
                      <<"warning:over-removal", "info:removed-all">>, None)
         ELSE IF PyEq(qty, current_qty)
         THEN Outcome(dict_del(sd, item.s), "none", <<"info:removed-all-now-0">>, None)
         ELSE Outcome(dict_set(sd, item.s, PySub(current_qty, qty)), "none",
                      <<"info:removed">>, None)

remove_item(sd, item, qty) ==
    IF ~isinstance_str(item) \/ ~Truthy(item)
    THEN Outcome(sd, "none", <<"error:invalid-name">>, None)
    ELSE IF ~isinstance_int(qty)
    THEN Outcome(sd, "none", <<"error:invalid-quantity">>, None)
    ELSE IF Twice(qty) <= 0
    THEN Outcome(sd, "none", <<"warning:invalid-quantity">>, None)
    ELSE IF item.s \notin Keys(sd)
    THEN Outcome(sd, "none", <<"warning:not-found">>, None)
    ELSE LET current_qty == dict_get(sd, item.s, None) IN
         IF PyGt(qty, current_qty) = "TypeError"
         THEN Outcome(sd, "TypeError", <<>>, None)
         ELSE IF PyGt(qty, current_qty) = "True"
         THEN Outcome(dict_del(sd, item.s), "none",
                      <<"warning:over-removal", "info:removed-all">>, None)
         ELSE IF PyEq(qty, current_qty)
         THEN Outcome(dict_del(sd, item.s), "none", <<"info:removed-all-now-0">>, None)
         ELSE Outcome(dict_set(sd, item.s, PySub(current_qty, qty)), "none",
                      <<"info:removed">>, None)

\* get_qty without the default of 0
get_qty_default_none(sd, item) ==
    IF Contains(sd, item) THEN dict_get(sd, item.s, None) ELSE None

get_qty(sd, item) ==
    IF Contains(sd, item) THEN dict_get(sd, item.s, PyInt(0)) ELSE PyInt(0)

\* the loop of check_low_items comparing with <= instead of <
RECURSIVE check_low_loop_le(_, _, _, _)
check_low_loop_le(sd, threshold, i, acc) ==
    IF i > Len(sd) THEN Outcome(sd, "none", <<>>, acc)
    ELSE LET c == IF PyLt(sd[i].v, threshold) = "False" /\ PyEq(sd[i].v, threshold)
                  THEN "True" ELSE PyLt(sd[i].v, threshold) IN
         IF c = "TypeError" THEN Outcome(sd, "TypeError", <<>>, acc)
         ELSE check_low_loop_le(sd, threshold, i + 1,
                                IF c = "True" THEN Append(acc, sd[i].k) ELSE acc)

\* the loop of check_low_items over the entries i..Len(sd), result so far in acc
RECURSIVE check_low_loop(_, _, _, _)
check_low_loop(sd, threshold, i, acc) ==
    IF i > Len(sd) THEN Outcome(sd, "none", <<>>, acc)
    ELSE LET c == PyLt(sd[i].v, threshold) IN
         IF c = "TypeError" THEN Outcome(sd, "TypeError", <<>>, acc)
         ELSE check_low_loop(sd, threshold, i + 1,
                             IF c = "True" THEN Append(acc, sd[i].k) ELSE acc)

check_low_items(sd, threshold) == check_low_loop(sd, threshold, 1, <<>>)

\* --------------------------------------------------------- persistence
\* The file is a sequence of lexical units of JSON text: punctuation, white
\* space, a text literal (s), a number literal (sign neg, decimal digits d),
\* true / false, or a byte sequence that is not valid UTF-8 ("bad").
Tok(k, s, neg, d) == [k |-> k, s |-> s, neg |-> neg, d |-> d]
LBRACE == Tok("lbrace", "", FALSE, <<>>)
RBRACE == Tok("rbrace", "", FALSE, <<>>)
COLON == Tok("colon", "", FALSE, <<>>)
COMMA == Tok("comma", "", FALSE, <<>>)
WS(s) == Tok("ws", s, FALSE, <<>>)
StrTok(s) == Tok("str", s, FALSE, <<>>)
NumTok(neg, d) == Tok("num", "", neg, d)
BoolTok(b) == Tok(IF b THEN "true" ELSE "false", "", FALSE, <<>>)
BadByte == Tok("bad", "", FALSE, <<>>)

\* decimal digits of a natural number, most significant first
RECURSIVE Digits(_)
Digits(n) == IF n < 10 THEN <<n>> ELSE Append(Digits(n \div 10), n % 10)

\* the natural number written by a digit sequence
RECURSIVE DigitsValue(_)
DigitsValue(d) ==
    IF Len(d) = 0 THEN 0
    ELSE 10 * DigitsValue(SubSeq(d, 1, Len(d) - 1)) + d[Len(d)]

\* dumps_value dropping the sign of a number
dumps_value_unsigned(v) ==
    IF v.t = "int" THEN NumTok(FALSE, Digits(IF v.n < 0 THEN -v.n ELSE v.n))
    ELSE IF v.t = "bool" THEN BoolTok(v.n = 1)
    ELSE StrTok(v.s)

\* json.dumps of one value (int, bool or str)
dumps_value(v) ==
    IF v.t = "int" THEN NumTok(v.n < 0, Digits(IF v.n < 0 THEN -v.n ELSE v.n))
    ELSE IF v.t = "bool" THEN BoolTok(v.n = 1)
    ELSE StrTok(v.s)

\* the members of the object from entry i on, each on its own indented line
RECURSIVE dumps_members(_, _)
dumps_members(sd, i) ==
    IF i > Len(sd) THEN <<>>
    ELSE (IF i > 1 THEN <<COMMA>> ELSE <<>>)
         \o <<WS("\n    "), StrTok(sd[i].k), COLON, WS(" "), dumps_value(sd[i].v)>>
         \o dumps_members(sd, i + 1)

\* json.dumps(stock_data, indent=4)
json_dumps(sd) ==
    IF Len(sd) = 0 THEN <<LBRACE, RBRACE>>
    ELSE <<LBRACE>> \o dumps_members(sd, 1) \o <<WS("\n"), RBRACE>>

\* a literal that json.loads accepts as a value: a number has no leading zero
IsValueTok(tk) ==
    \/ tk.k \in {"str", "true", "false"}
    \/ tk.k = "num" /\ Len(tk.d) >= 1 /\ (Len(tk.d) = 1 \/ tk.d[1] # 0)

loads_value(tk) ==
    IF tk.k = "num" THEN PyInt(IF tk.neg THEN -DigitsValue(tk.d) ELSE DigitsValue(tk.d))
    ELSE IF tk.k = "str" THEN PyStr(tk.s)
    ELSE PyBool(tk.k = "true")

\* members j.. of the object read into acc: a repeated key keeps its first
\* place and takes the last value
RECURSIVE loads_members(_, _, _)
loads_members(T, j, acc) ==
    IF 2 + 4 * j >= Len(T) THEN acc
    ELSE loads_members(T, j + 1, dict_set(acc, T[2 + 4 * j].s, loads_value(T[4 + 4 * j])))

\* json.loads(data) for text whose top level is an object or is malformed:
\* ok = FALSE stands for JSONDecodeError
json_loads(data) ==
    LET T == SelectSeq(data, LAMBDA tk : tk.k # "ws")
        L == Len(T)
        wellFormed ==
            /\ L >= 2
            /\ T[1] = LBRACE
            /\ T[L] = RBRACE
            /\ \/ L = 2
               \/ /\ (L - 2) % 4 = 3
                  /\ \A j \in 0..((L - 5) \div 4) :
                        /\ T[2 + 4 * j].k = "str"
                        /\ T[3 + 4 * j].k = "colon"
                        /\ IsValueTok(T[4 + 4 * j])
                        /\ (5 + 4 * j < L => T[5 + 4 * j] = COMMA)
    IN IF wellFormed THEN [ok |-> TRUE, value |-> loads_members(T, 0, <<>>)]
       ELSE [ok |-> FALSE, value |-> <<>>]

\* f.read() of a file opened with encoding="utf-8"
CanDecode(bytes) == \A i \in DOMAIN bytes : bytes[i] # BadByte

\* load_data treating text of white space only as empty
load_data_strip(sd, dk, io) ==
    IF ~dk.exists
    THEN Outcome(sd, "none", <<"warning:file-not-found">>, <<>>)
    ELSE IF io = "oserror"
    THEN Outcome(sd, "none", <<"error:io">>, <<>>)
    ELSE IF ~CanDecode(dk.bytes)
    THEN Outcome(sd, "UnicodeDecodeError", <<>>, <<>>)
    ELSE IF SelectSeq(dk.bytes, LAMBDA tk : tk.k # "ws") = <<>>
    THEN Outcome(sd, "none", <<"warning:empty-file">>, <<>>)
    ELSE IF ~json_loads(dk.bytes).ok
    THEN Outcome(sd, "none", <<"error:corrupt-file">>, <<>>)
    ELSE Outcome(sd, "none", <<"info:loaded">>, json_loads(dk.bytes).value)

\* load_data(file): dk is the file, io = "oserror" when open or read fails
\* with an OSError other than FileNotFoundError
load_data(sd, dk, io) ==
    IF ~dk.exists
    THEN Outcome(sd, "none", <<"warning:file-not-found">>, <<>>)
    ELSE IF io = "oserror"
    THEN Outcome(sd, "none", <<"error:io">>, <<>>)
    ELSE IF ~CanDecode(dk.bytes)
    THEN Outcome(sd, "UnicodeDecodeError", <<>>, <<>>)
    ELSE IF dk.bytes = <<>>
    THEN Outcome(sd, "none", <<"warning:empty-file">>, <<>>)
    ELSE IF ~json_loads(dk.bytes).ok
    THEN Outcome(sd, "none", <<"error:corrupt-file">>, <<>>)
    ELSE Outcome(sd, "none", <<"info:loaded">>, json_loads(dk.bytes).value)

\* save_data catching PermissionError only
save_data_uncaught(sd, dk, io) ==
    IF io = "perm" THEN Outcome(sd, "none", <<"error:permission">>, None)
    ELSE IF io \in {"openfail", "writefail"} THEN Outcome(sd, "OSError", <<>>, None)
    ELSE Outcome(sd, "none", <<"info:saved">>, None)

\* save_data(file): io = "ok", "perm" (PermissionError from open), "openfail"
\* (another OSError from open) or "writefail" (OSError from write, after
\* open(file, "w") has truncated the file)
save_data(sd, dk, io) ==
    IF io = "perm" THEN Outcome(sd, "none", <<"error:permission">>, None)
    ELSE IF io \in {"openfail", "writefail"} THEN Outcome(sd, "none", <<"error:io">>, None)
    ELSE Outcome(sd, "none", <<"info:saved">>, None)

\* the file after save_data
save_file(sd, dk, io) ==
    IF io = "ok" THEN [exists |-> TRUE, bytes |-> json_dumps(sd)]
    ELSE IF io = "writefail" THEN [exists |-> TRUE, bytes |-> <<>>]
    ELSE dk

\* ------------------------------------------------------- state machine
VARIABLES
    stock_data,   \* the module-level dict
    disk,         \* inventory.json: [exists, bytes]
    last,         \* the last call: [op, item, qty, io]
    pre,          \* stock_data when the last call began
    raised,       \* exception the last call let out, "none" if it returned
    log,          \* records the last call logged
    ret,          \* what the last call returned
    saved,        \* [valid, m]: the file holds what a successful save of m wrote
    added,        \* per name, sum of qty over the valid add calls so far
    pure,         \* TRUE while only add calls and queries have been made
    fresh,        \* TRUE while no load_data has replaced the mapping
    touched,      \* while fresh: the names a valid add has been made to
    counter,      \* while fresh: per name, the reference counter
    undo,         \* [on, m]: the last call is the remove matching the valid add
                  \* made just before it, m the mapping before that add
    pc,           \* main(): the statement to run next, 0 outside main()
    run,          \* main(): the number of the run, 0 outside main()
    clean         \* main(): every load read its file and every save succeeded

mainVars == <<pc, run, clean>>
vars == <<stock_data, disk, last, pre, raised, log, ret, saved, added, pure,
          fresh, touched, counter, undo, pc, run, clean>>

Names == {"apple", "banana"}
ItemArgs == {PyStr(k) : k \in Names} \cup {PyStr(""), PyInt(123)}
QtyArgs == {PyInt(n) : n \in -1..MaxArg} \cup {PyStr("ten"), PyFloat(2), PyBool(TRUE)}
\* the (item, qty) pairs passed to add_item and remove_item: every qty with a
\* name, and a valid, a non-positive and a non-integer qty with a rejected item
ArgPairs ==
    ({PyStr(k) : k \in Names} \X QtyArgs)
    \cup ({PyStr(""), PyInt(123)} \X {PyInt(1), PyInt(0), PyStr("ten")})
Thresholds == {PyInt(n) : n \in 0..(MaxQty + 1)}

File(bytes) == [exists |-> TRUE, bytes |-> bytes]
NoFile == [exists |-> FALSE, bytes |-> <<>>]

\* the files the program may find when it starts
InitFiles ==
    { NoFile,
      File(<<>>),
      File(<<WS(" ")>>),
      File(<<LBRACE>>),
      File(<<BadByte>>),
      File(<<LBRACE, StrTok("apple"), COLON, NumTok(FALSE, <<0, 1>>), RBRACE>>),
      File(<<LBRACE, StrTok("apple"), COLON, NumTok(FALSE, <<0>>), RBRACE>>),
      File(<<LBRACE, StrTok("apple"), COLON, NumTok(TRUE, <<1>>), COMMA,
             StrTok("banana"), COLON, NumTok(FALSE, <<2>>), RBRACE>>),
      File(<<LBRACE, StrTok("banana"), COLON, NumTok(FALSE, <<1>>), COMMA,
             StrTok("apple"), COLON, NumTok(FALSE, <<3>>), COMMA,
             StrTok("banana"), COLON, NumTok(FALSE, <<2>>), RBRACE>>),
      File(<<LBRACE, StrTok("apple"), COLON, StrTok("ten"), RBRACE>>) }

NoCall == [op |-> "none", item |-> None, qty |-> None, io |-> "ok"]
Call(op, item, qty, io) == [op |-> op, item |-> item, qty |-> qty, io |-> io]

\* the claim-side notion of a valid add / remove argument pair
ValidArgs(item, qty) ==
    /\ item.t = "str" /\ item.s # ""
    /\ qty.t \in {"int", "bool"} /\ qty.n > 0

\* the add leaves the mapping alone or builds a quantity of at most MaxQty
Bounded(o, item) == o.stock = stock_data \/ get_qty(o.stock, item).n <= MaxQty

NoUndo == [on |-> FALSE, m |-> <<>>]
Zero == [k \in Names |-> 0]
Max0(n) == IF n < 0 THEN 0 ELSE n

Init ==
    /\ stock_data = <<>>
    /\ disk \in InitFiles
    /\ last = NoCall
    /\ pre = <<>>
    /\ raised = "none"
    /\ log = <<>>
    /\ ret = None
    /\ saved = [valid |-> FALSE, m |-> <<>>]
    /\ added = Zero
    /\ pure = TRUE
    /\ fresh = TRUE
    /\ touched = {}
    /\ counter = Zero
    /\ undo = NoUndo
    /\ pc = 0
    /\ run = 0
    /\ clean = TRUE

\* a call of an operation on the mapping, with outcome o
Record(call, o) ==
    /\ last' = call
    /\ pre' = stock_data
    /\ raised' = o.raised
    /\ log' = o.log
    /\ ret' = o.ret

AddItem ==
    \E args \in ArgPairs :
        LET item == args[1]
            qty == args[2]
            o == add_item(stock_data, item, qty) IN
        /\ Bounded(o, item)
        /\ stock_data' = o.stock
        /\ Record(Call("add_item", item, qty, "ok"), o)
        /\ added' = IF pure /\ ValidArgs(item, qty)
                     THEN [added EXCEPT ![item.s] = @ + qty.n] ELSE added
        /\ touched' = IF fresh /\ ValidArgs(item, qty)
                       THEN touched \cup {item.s} ELSE touched
        /\ counter' = IF fresh /\ ValidArgs(item, qty)
                       THEN [counter EXCEPT ![item.s] = @ + qty.n] ELSE counter
        /\ undo' = NoUndo
        /\ UNCHANGED <<disk, saved, pure, fresh, mainVars>>

RemoveItem ==
    \E args \in ArgPairs :
        LET item == args[1]
            qty == args[2]
            o == remove_item(stock_data, item, qty) IN
        /\ stock_data' = o.stock
        /\ Record(Call("remove_item", item, qty, "ok"), o)
        /\ pure' = FALSE
        /\ added' = Zero
        /\ counter' = IF fresh /\ ValidArgs(item, qty)
                       THEN [counter EXCEPT ![item.s] = Max0(@ - qty.n)] ELSE counter
        /\ undo' = IF /\ fresh
                      /\ last.op = "add_item"
                      /\ ValidArgs(last.item, last.qty)
                      /\ item = last.item
                      /\ qty = last.qty
                   THEN [on |-> TRUE, m |-> pre] ELSE NoUndo
        /\ UNCHANGED <<disk, saved, fresh, touched, mainVars>>

GetQty ==
    \E item \in ItemArgs :
        /\ Record(Call("get_qty", item, None, "ok"),
                  Outcome(stock_data, "none", <<>>, get_qty(stock_data, item)))
        /\ undo' = NoUndo
        /\ UNCHANGED <<stock_data, disk, saved, added, pure, fresh, touched, counter,
                       mainVars>>

CheckLowItems ==
    \E threshold \in Thresholds :
        /\ Record(Call("check_low_items", None, threshold, "ok"),
                  check_low_items(stock_data, threshold))
        /\ undo' = NoUndo
        /\ UNCHANGED <<stock_data, disk, saved, added, pure, fresh, touched, counter,
                       mainVars>>

\* stock_data = load_data()
LoadData ==
    \E io \in {"ok", "oserror"} :
        LET o == load_data(stock_data, disk, io) IN
        /\ stock_data' = IF o.raised = "none" THEN o.ret ELSE stock_data
        /\ Record(Call("load_data", None, None, io), o)
        /\ pure' = FALSE
        /\ added' = Zero
        /\ fresh' = FALSE
        /\ touched' = {}
        /\ counter' = Zero
        /\ undo' = NoUndo
        /\ UNCHANGED <<disk, saved, mainVars>>

SaveData ==
    \E io \in {"ok", "perm", "openfail", "writefail"} :
        LET o == save_data(stock_data, disk, io) IN
        /\ disk' = save_file(stock_data, disk, io)
        /\ saved' = IF io = "ok" THEN [valid |-> TRUE, m |-> stock_data]
                     ELSE IF io = "writefail" THEN [valid |-> FALSE, m |-> <<>>]
                     ELSE saved
        /\ Record(Call("save_data", None, None, io), o)
        /\ undo' = NoUndo
        /\ UNCHANGED <<stock_data, added, pure, fresh, touched, counter, mainVars>>

Next ==
    \/ AddItem
    \/ RemoveItem
    \/ GetQty
    \/ CheckLowItems
    \/ LoadData
    \/ SaveData

Spec == Init /\ [][Next]_vars

\* ---------------------------------------------------------------- main()
\* The statements of main() that call the operations, by position; the two
\* print_data() calls and the print statements only write to the console.
MainCalls ==
    << Call("load_data", None, None, "ok"),
       Call("add_item", PyStr("apple"), PyInt(10), "ok"),
       Call("add_item", PyStr("banana"), PyInt(20), "ok"),
       Call("add_item", PyStr("apple"), PyInt(5), "ok"),
       Call("add_item", PyStr("banana"), PyInt(-2), "ok"),
       Call("add_item", PyInt(123), PyInt(10), "ok"),
       Call("add_item", PyStr("pear"), PyStr("ten"), "ok"),
       Call("remove_item", PyStr("apple"), PyInt(3), "ok"),
       Call("remove_item", PyStr("orange"), PyInt(1), "ok"),
       Call("remove_item", PyStr("banana"), PyInt(25), "ok"),
       Call("get_qty", PyStr("apple"), None, "ok"),
       Call("get_qty", PyStr("banana"), None, "ok"),
       Call("get_qty", PyStr("orange"), None, "ok"),
       Call("check_low_items", None, PyInt(15), "ok"),
       Call("save_data", None, None, "ok") >>

\* pc when main() has returned or an exception has ended the process
Done == Len(MainCalls) + 1

ghostVars == <<saved, added, pure, fresh, touched, counter, undo>>

\* the first run starts with no inventory file
MainInit ==
    /\ stock_data = <<>>
    /\ disk = NoFile
    /\ last = NoCall
    /\ pre = <<>>
    /\ raised = "none"
    /\ log = <<>>
    /\ ret = None
    /\ saved = [valid |-> FALSE, m |-> <<>>]
    /\ added = Zero
    /\ pure = TRUE
    /\ fresh = TRUE
    /\ touched = {}
    /\ counter = Zero
    /\ undo = NoUndo
    /\ pc = 1
    /\ run = 1
    /\ clean = TRUE

\* the statement at pc is a call of op
At(op) == pc < Done /\ MainCalls[pc].op = op

\* an uncaught exception ends the process, otherwise the next statement runs
Advance(o) == pc' = IF o.raised = "none" THEN pc + 1 ELSE Done

MainLoad ==
    /\ At("load_data")
    /\ \E io \in {"ok", "oserror"} :
        LET o == load_data(stock_data, disk, io) IN
        /\ stock_data' = IF o.raised = "none" THEN o.ret ELSE stock_data
        /\ Record(Call("load_data", None, None, io), o)
        /\ clean' = (clean /\ io = "ok")
        /\ Advance(o)
    /\ UNCHANGED <<disk, run, ghostVars>>

MainAdd ==
    /\ At("add_item")
    /\ LET o == add_item(stock_data, MainCalls[pc].item, MainCalls[pc].qty) IN
        /\ stock_data' = o.stock
        /\ Record(MainCalls[pc], o)
        /\ Advance(o)
    /\ UNCHANGED <<disk, run, clean, ghostVars>>

MainRemove ==
    /\ At("remove_item")
    /\ LET o == remove_item(stock_data, MainCalls[pc].item, MainCalls[pc].qty) IN
        /\ stock_data' = o.stock
        /\ Record(MainCalls[pc], o)
        /\ Advance(o)
    /\ UNCHANGED <<disk, run, clean, ghostVars>>

MainGetQty ==
    /\ At("get_qty")
    /\ LET o == Outcome(stock_data, "none", <<>>,
                        get_qty(stock_data, MainCalls[pc].item)) IN
        /\ Record(MainCalls[pc], o)
        /\ Advance(o)
    /\ UNCHANGED <<stock_data, disk, run, clean, ghostVars>>

MainCheckLow ==
    /\ At("check_low_items")
    /\ LET o == check_low_items(stock_data, MainCalls[pc].qty) IN
        /\ Record(MainCalls[pc], o)
        /\ Advance(o)
    /\ UNCHANGED <<stock_data, disk, run, clean, ghostVars>>

MainSave ==
    /\ At("save_data")
    /\ \E io \in {"ok", "perm", "openfail", "writefail"} :
        LET o == save_data(stock_data, disk, io) IN
        /\ disk' = save_file(stock_data, disk, io)
        /\ Record(Call("save_data", None, None, io), o)
        /\ clean' = (clean /\ io = "ok")
        /\ Advance(o)
    /\ UNCHANGED <<stock_data, run, ghostVars>>

\* the next run: a new process, stock_data = {} again, the file as it was left
MainStart ==
    /\ pc = Done
    /\ run < MaxRuns
    /\ pc' = 1
    /\ run' = run + 1
    /\ stock_data' = <<>>
    /\ last' = NoCall
    /\ pre' = <<>>
    /\ raised' = "none"
    /\ log' = <<>>
    /\ ret' = None
    /\ UNCHANGED <<disk, clean, ghostVars>>

MainNext ==
    \/ MainLoad
    \/ MainAdd
    \/ MainRemove
    \/ MainGetQty
    \/ MainCheckLow
    \/ MainSave
    \/ MainStart

MainSpec == MainInit /\ [][MainNext]_vars

\* ---------------------------------------------------------- properties
\* every quantity of the mapping is an int
IntStore(d) == \A i \in DOMAIN d : d[i].v.t = "int"

\* the (item, quantity) pairs of a mapping, without order
Pairs(d) == {<<d[i].k, d[i].v>> : i \in DOMAIN d}

\* every entry but the one of item is the same in d and e
SameElsewhere(d, e, item) ==
    /\ Keys(d) \ {item.s} = Keys(e) \ {item.s}
    /\ \A k \in Keys(d) \ {item.s} : dict_get(d, k, None) = dict_get(e, k, None)

\* C1: in every reachable state whose quantities are integers, every key of
\* the mapping has a strictly positive quantity.  Violated: load_data takes
\* the quantities of the file as they are.
C1_PositiveQuantities ==
    IntStore(stock_data) => \A i \in DOMAIN stock_data : stock_data[i].v.n > 0

\* C2: after a valid add_item(item, qty) on a mapping of integer quantities,
\* the quantity of item is its previous quantity (0 when absent) plus qty, the
\* item is a key, and every other entry is unchanged.
C2_AddIncreasesByQty ==
    (last.op = "add_item" /\ ValidArgs(last.item, last.qty) /\ IntStore(pre))
    => /\ raised = "none"
       /\ last.item.s \in Keys(stock_data)
       /\ get_qty(stock_data, last.item) = PyInt(get_qty(pre, last.item).n + last.qty.n)
       /\ SameElsewhere(stock_data, pre, last.item)

C2_Witness ==
    /\ last.op = "add_item" /\ ValidArgs(last.item, last.qty) /\ IntStore(pre)
    /\ last.item.s \in Keys(pre)
    /\ Cardinality(Keys(pre)) = 2
    /\ get_qty(pre, last.item).n = 1
    /\ last.qty.n = 1

\* C3: remove_item(item, q) with an integer q above the current quantity c of
\* a present item gives the mapping that remove_item(item, c) gives: item
\* absent, get_qty(item) = 0, the other entries the same.  Violated for a
\* loaded c <= 0, where remove_item(item, c) is rejected.
C3_OverRemovalSameAsExact ==
    (/\ last.op = "remove_item"
     /\ IntStore(pre)
     /\ Contains(pre, last.item)
     /\ isinstance_int(last.qty)
     /\ last.qty.n > get_qty(pre, last.item).n)
    => /\ stock_data = remove_item(pre, last.item, get_qty(pre, last.item)).stock
       /\ ~Contains(stock_data, last.item)
       /\ get_qty(stock_data, last.item) = PyInt(0)

\* C4: an add_item whose item is empty or not text, or whose qty is not an
\* integer or is zero or negative, leaves the mapping exactly as it was.
C4_RejectedAddNoMutation ==
    (last.op = "add_item" /\ ~ValidArgs(last.item, last.qty))
    => stock_data = pre /\ raised = "none"

C4_Witness ==
    /\ last.op = "add_item"
    /\ last.qty = PyInt(-1)
    /\ Contains(pre, last.item)
    /\ get_qty(pre, last.item).n >= 2

\* C5: remove_item on an item that is not a key leaves the mapping exactly as
\* it was (same size, same quantities) and raises nothing.
C5_RemoveAbsentNoOp ==
    (last.op = "remove_item" /\ ~Contains(pre, last.item))
    => /\ stock_data = pre
       /\ Len(stock_data) = Len(pre)
       /\ raised = "none"

C5_Witness ==
    /\ last.op = "remove_item"
    /\ ValidArgs(last.item, last.qty)
    /\ ~Contains(pre, last.item)
    /\ Len(pre) = 1
    /\ log = <<"warning:not-found">>

\* C6: after remove_item(item, c) where c is the current quantity of a present
\* item, item is not a key, get_qty(item) is 0 and check_low_items(t) does not
\* list item for any positive t.  Violated for a loaded c <= 0.
C6_ExactRemovalDeletes ==
    (/\ last.op = "remove_item"
     /\ IntStore(pre)
     /\ Contains(pre, last.item)
     /\ last.qty = get_qty(pre, last.item))
    => /\ ~Contains(stock_data, last.item)
       /\ get_qty(stock_data, last.item) = PyInt(0)
       /\ \A t \in Thresholds :
             t.n > 0 =>
               LET low == check_low_items(stock_data, t).ret IN
               \A i \in DOMAIN low : low[i] # last.item.s

\* C7: remove_item(item, qty) with 0 < qty < c, c the current quantity of a
\* present item, leaves item present at c - qty > 0 and every other entry
\* unchanged.
C7_PartialRemovalDecrements ==
    (/\ last.op = "remove_item"
     /\ ValidArgs(last.item, last.qty)
     /\ IntStore(pre)
     /\ Contains(pre, last.item)
     /\ last.qty.n < get_qty(pre, last.item).n)
    => /\ raised = "none"
       /\ Contains(stock_data, last.item)
       /\ get_qty(stock_data, last.item) = PyInt(get_qty(pre, last.item).n - last.qty.n)
       /\ get_qty(stock_data, last.item).n > 0
       /\ SameElsewhere(stock_data, pre, last.item)

C7_Witness ==
    /\ last.op = "remove_item"
    /\ ValidArgs(last.item, last.qty)
    /\ IntStore(pre)
    /\ Cardinality(Keys(pre)) = 2
    /\ Contains(pre, last.item)
    /\ get_qty(pre, last.item).n = 2
    /\ last.qty.n = 1

\* C8: a load_data that reads the file a successful save_data wrote, with no
\* write in between, returns the (item, quantity) pairs the mapping had at
\* the save.
C8_SaveLoadRoundTrip ==
    (last.op = "load_data" /\ last.io = "ok" /\ saved.valid)
    => /\ raised = "none"
       /\ Pairs(ret) = Pairs(saved.m)
       /\ Len(ret) = Len(saved.m)

C8_Witness ==
    /\ last.op = "load_data" /\ last.io = "ok" /\ saved.valid
    /\ Len(saved.m) = 2
    /\ \E i \in DOMAIN saved.m : saved.m[i].v.n < 0
    /\ \E i \in DOMAIN saved.m : saved.m[i].v.n > 1

\* C9: load_data never raises: whatever the file, it returns, and when it did
\* not load a mapping it returns the empty one and logs a diagnostic.
\* Violated: bytes that are not UTF-8 raise UnicodeDecodeError.
C9_LoadNeverRaises ==
    last.op = "load_data"
    => /\ raised = "none"
       /\ (log # <<"info:loaded">> => ret = <<>> /\ Len(log) = 1)

\* C10: while only add_item calls have been made on the store that began
\* empty, get_qty(item) is the sum of qty over the valid ones made to item.
C10_CumulativeSum ==
    pure => /\ \A k \in Names : get_qty(stock_data, PyStr(k)) = PyInt(added[k])
            /\ \A item \in ItemArgs :
                  (item.t # "str" \/ item.s \notin Names)
                  => get_qty(stock_data, item) = PyInt(0)

C10_Witness ==
    /\ pure
    /\ added["apple"] = 2
    /\ added["banana"] >= 1
    /\ last.op = "add_item" /\ ~ValidArgs(last.item, last.qty)

\* C11: while no load has replaced the mapping, get_qty(item) is 0 for every
\* item no valid add has been made to; a get_qty call raises nothing and
\* returns the stored quantity of a present item and 0 for an absent one.
C11_NeverAddedIsZero ==
    /\ fresh => \A item \in ItemArgs :
                  (item.t # "str" \/ item.s \notin touched)
                  => get_qty(stock_data, item) = PyInt(0)
    /\ last.op = "get_qty"
       => /\ raised = "none"
          /\ stock_data = pre
          /\ ret = IF last.item.t = "str" /\ last.item.s \in Keys(pre)
                   THEN pre[IndexOf(pre, last.item.s)].v ELSE PyInt(0)

C11_Witness ==
    /\ fresh
    /\ touched = {"apple"}
    /\ Len(stock_data) = 1
    /\ last.op = "get_qty"
    /\ last.item = PyStr("banana")
    /\ ret = PyInt(0)

\* C12: on a mapping of integer quantities check_low_items(threshold) returns
\* exactly the items whose quantity is strictly below threshold, each once,
\* and leaves the mapping unchanged.
C12_ItemsBelowThreshold ==
    (last.op = "check_low_items" /\ IntStore(pre))
    => LET below == {k \in Keys(pre) : dict_get(pre, k, None).n < last.qty.n} IN
       /\ raised = "none"
       /\ {ret[i] : i \in DOMAIN ret} = below
       /\ Len(ret) = Cardinality(below)
       /\ stock_data = pre

C12_Witness ==
    /\ last.op = "check_low_items" /\ IntStore(pre)
    /\ \E i \in DOMAIN pre : pre[i].v.n = last.qty.n
    /\ \E i \in DOMAIN pre : pre[i].v.n < last.qty.n
    /\ Len(ret) = 1

\* C13: save_data raises nothing: a failed open or write is logged as an error
\* and the call returns; the mapping is the same before and after the call.
C13_SaveNeverRaises ==
    last.op = "save_data"
    => /\ raised = "none"
       /\ stock_data = pre
       /\ (last.io = "perm" => log = <<"error:permission">>)
       /\ (last.io \in {"openfail", "writefail"} => log = <<"error:io">>)

C13_Witness ==
    /\ last.op = "save_data"
    /\ last.io = "writefail"
    /\ Len(pre) = 2
    /\ disk = File(<<>>)

\* C14: no call of add_item, remove_item, get_qty, check_low_items or
\* save_data raises, whatever a successful load put in the mapping.
\* Violated: a loaded text quantity makes +, > and < raise TypeError.
C14_NoOperationRaises ==
    last.op \in {"add_item", "remove_item", "get_qty", "check_low_items", "save_data"}
    => raised = "none"

\* the file holds no character other than white space
Blank(dk) == dk.exists /\ SelectSeq(dk.bytes, LAMBDA tk : tk.k # "ws") = <<>>

\* C15 as stated: load_data of an existing file that is empty or holds only
\* white space returns the empty mapping and logs the empty-file warning.
\* Violated: white space is not empty text, and json.loads rejects it.
C15_BlankFileIsEmptyFile ==
    (last.op = "load_data" /\ last.io = "ok" /\ Blank(disk))
    => /\ raised = "none"
       /\ ret = <<>>
       /\ log = <<"warning:empty-file">>

\* C15 amended: load_data of an existing file without meaningful characters
\* returns the empty mapping; it logs the empty-file warning when the file has
\* zero bytes and the corrupt-file error when it holds only white space.
C15_EmptyFileWarning ==
    (last.op = "load_data" /\ last.io = "ok" /\ Blank(disk))
    => /\ raised = "none"
       /\ ret = <<>>
       /\ stock_data = <<>>
       /\ log = IF disk.bytes = <<>> THEN <<"warning:empty-file">>
                ELSE <<"error:corrupt-file">>

C15_Witness ==
    /\ last.op = "load_data" /\ last.io = "ok"
    /\ disk = File(<<WS(" ")>>)
    /\ log = <<"error:corrupt-file">>
    /\ stock_data = <<>>

\* C16: after a remove_item that passes validation on a present item of
\* integer quantity (also a loaded zero or negative one), the item is absent
\* or present with a quantity above zero.
C16_RemovalNeverStoresNonPositive ==
    (/\ last.op = "remove_item"
     /\ ValidArgs(last.item, last.qty)
     /\ Contains(pre, last.item)
     /\ get_qty(pre, last.item).t = "int")
    => /\ raised = "none"
       /\ \/ ~Contains(stock_data, last.item)
          \/ /\ get_qty(stock_data, last.item).t = "int"
             /\ get_qty(stock_data, last.item).n > 0

C16_Witness ==
    /\ last.op = "remove_item"
    /\ ValidArgs(last.item, last.qty)
    /\ Contains(pre, last.item)
    /\ get_qty(pre, last.item) = PyInt(-1)
    /\ ~Contains(stock_data, last.item)
    /\ Len(stock_data) = 1

\* the category the validation rules give a rejected (item, qty)
Category(item, qty) ==
    IF ~(item.t = "str" /\ item.s # "") THEN "error:invalid-name"
    ELSE IF qty.t \notin {"int", "bool"} THEN "error:invalid-quantity"
    ELSE "warning:invalid-quantity"

\* C17: for every (item, qty) that add_item rejects, add_item and remove_item
\* log the same category -- invalid name, else invalid quantity type, else
\* non-positive quantity -- and leave the mapping unchanged, whether or not
\* item is present; not-found is logged only for arguments that pass.
C17_SameValidation ==
    /\ (last.op \in {"add_item", "remove_item"} /\ ~ValidArgs(last.item, last.qty))
       => /\ log = <<Category(last.item, last.qty)>>
          /\ log = add_item(pre, last.item, last.qty).log
          /\ stock_data = pre
          /\ raised = "none"
    /\ (last.op = "remove_item" /\ log = <<"warning:not-found">>)
       => ValidArgs(last.item, last.qty)

C17_Witness ==
    /\ last.op = "remove_item"
    /\ Contains(pre, last.item)
    /\ last.qty = PyInt(0)
    /\ log = <<"warning:invalid-quantity">>

\* C19: while no load has replaced the mapping, the store matches the
\* reference counters (valid add: + qty; valid remove: max(0, counter - qty);
\* rejected call: unchanged): get_qty is the counter and the keys are the
\* names whose counter is above 0.
C19_MatchesCounters ==
    fresh => /\ \A k \in Names : get_qty(stock_data, PyStr(k)) = PyInt(counter[k])
             /\ Keys(stock_data) = {k \in Names : counter[k] > 0}

C19_Witness ==
    /\ fresh
    /\ last.op = "remove_item"
    /\ log = <<"warning:over-removal", "info:removed-all">>
    /\ counter[last.item.s] = 0
    /\ \E k \in Names : counter[k] = 2

\* C20: while no load has replaced the mapping, a valid add_item(item, qty)
\* followed at once by remove_item(item, qty) gives back exactly the mapping
\* there was before the add.
C20_AddUndoneByRemove ==
    undo.on => stock_data = undo.m /\ raised = "none"

C20_Witness ==
    /\ undo.on
    /\ Len(undo.m) = 1
    /\ ~Contains(undo.m, last.item)
    /\ last.qty.n = 2

\* C18: in consecutive runs of main() that begin with no inventory file, in
\* which every load reads the file and every save succeeds, get_qty("banana")
\* and get_qty("orange") are 0 where the quantities are printed, and neither
\* is a key of the mapping the run saves.
C18_DriverOutcomes ==
    (clean /\ run >= 1)
    => /\ (last.op = "get_qty" /\ last.item \in {PyStr("banana"), PyStr("orange")})
          => ret = PyInt(0)
       /\ (last.op \in {"get_qty", "check_low_items"})
          => /\ get_qty(stock_data, PyStr("banana")) = PyInt(0)
             /\ get_qty(stock_data, PyStr("orange")) = PyInt(0)
       /\ last.op = "save_data"
          => /\ raised = "none"
             /\ {"banana", "orange"} \cap Keys(stock_data) = {}
             /\ {"banana", "orange"} \cap Keys(json_loads(disk.bytes).value) = {}
             /\ json_loads(disk.bytes).ok

C18_Witness ==
    /\ clean
    /\ run = 3
    /\ last.op = "save_data"
    /\ stock_data = <<[k |-> "apple", v |-> PyInt(36)]>>

====
